---- MODULE Spec2Model ----
(***************************************************************************)
(* Model of PremiumRecipeFinderApp (src/app.js): the ingredient set, the   *)
(* search aggregation (one fetch per ingredient, Promise.all, dedup,       *)
(* annotation), the filters and the countdown timer.                       *)
(***************************************************************************)
EXTENDS Integers, Sequences, FiniteSets, TLC

\* ------------------------------------------------------------------ bounds

\* setInterval registrations a behaviour may create (handles are 1..MaxHandles).
MaxHandles == 3
\* 'finished' toasts counted since the last startTimer before ticks are cut off.
MaxFinished == 2
\* setTimer is called with 1..MaxDuration seconds (and with 90, the spec's scenario).
MaxDuration == 3

\* searchRecipes runs that may be in flight at once.
MaxInFlight == 2

\* random.php and lookup.php requests that may be in flight at once.
MaxLookups == 2

\* ------------------------------------------------------- program constants

\* getMatchingIngredients: Math.min(searchIngredients.length, 3).
MaxMatches == 3

\* startTimer: `if (timeRemaining <= 0) this.setTimer(300)`.
DefaultDuration == 300

\* JavaScript null where the other values are strings (state.error).
Null == "null"
\* timerState.interval: null. setInterval returns positive handles, and
\* pauseTimer tests `if (interval)`.
NullHandle == 0

VARIABLES
    \* ---- this.state of the search (src/app.js:9-20) and what is displayed
    selectedIngredients, \* the Set, as the sequence of its insertion order
    allRecipes,          \* state.allRecipes
    filteredRecipes,     \* state.filteredRecipes
    isLoading,           \* state.isLoading
    error,               \* state.error: Null or the message
    currentFilter,       \* state.currentFilter: [time, category, area]
    view,                \* the container shown: empty, loading, error, grid
    \* ---- the environment of the search
    catalog,             \* the catalog's answer to filter.php?i=<ingredient>
    searches,            \* searchRecipes runs awaiting Promise.all, oldest first
    \* ---- observers of the search (not program state)
    lastEvent,           \* the handler that ran last, see Event and FetchEvent
    lastSuccess,         \* the ingredients of the run that wrote allRecipes
    \* ---- state.timerState and the browser's interval table
    timerState,       \* [isRunning, isPaused, timeRemaining, interval]
    activeIntervals,  \* handles registered by setInterval and not cleared
    nextHandle,       \* the handle the next setInterval returns
    timerDisplay,     \* text of #timer-time as <<minutes, seconds>>
    \* ---- observers of the timer (not program state)
    lastTimerOp,      \* the timer operation that ran last
    timerRun,         \* [kind, initial, ticks]: how the countdown was started
    finishedCount,    \* 'finished' toasts since the last startTimer
    pausedAt,         \* {timeRemaining at the last pauseTimer of a Running timer}
    halted            \* "reset" since resetTimer until startTimer, "paused" since
                      \* pauseTimer until startTimer, setTimer or resetTimer
VARIABLES
    \* ---- the recipe modal and the favorites
    currentRecipe,    \* this.currentRecipe: Null or the idMeal of the recipe
    modalOpen,        \* #modal-overlay is not hidden
    favorites,        \* state.favorites
    toast,            \* the last message the modal handlers gave to showToast
    \* ---- the environment of the modal
    lookups,          \* random.php and lookup.php requests awaiting their reply
    latestRequest     \* observer: {idMeal of the last showRecipeModal call},
                      \* {Null} since closeModal, {} since a lookup failed

detailVars == <<currentRecipe, modalOpen, favorites, toast, lookups,
                latestRequest>>

timerVars == <<timerState, activeIntervals, nextHandle, timerDisplay,
               lastTimerOp, timerRun, finishedCount, pausedAt, halted>>

searchVars == <<selectedIngredients, allRecipes, filteredRecipes, isLoading,
                error, currentFilter, view, catalog, searches, lastEvent,
                lastSuccess>>

\* What the search handlers leave alone, and what the timer handlers do.
nonSearchVars == <<timerState, activeIntervals, nextHandle, timerDisplay,
                   lastTimerOp, timerRun, finishedCount, pausedAt, halted,
                   currentRecipe, modalOpen, favorites, toast, lookups,
                   latestRequest>>
nonTimerVars == <<selectedIngredients, allRecipes, filteredRecipes, isLoading,
                  error, currentFilter, view, catalog, searches, lastSuccess,
                  detailVars>>

vars == <<selectedIngredients, allRecipes, filteredRecipes, isLoading,
          error, currentFilter, view, catalog, searches, lastEvent,
          lastSuccess,
          timerState, activeIntervals, nextHandle, timerDisplay,
          lastTimerOp, timerRun, finishedCount, pausedAt, halted,
          currentRecipe, modalOpen, favorites, toast, lookups,
          latestRequest>>

\* ------------------------------------------------------------ strings

\* Strings that the code lowercases, trims or compares ignoring case are
\* sequences of one-character strings.
UpperChars == <<"A","B","C","D","E","F","G","H","I","J","K","L","M",
                "N","O","P","Q","R","S","T","U","V","W","X","Y","Z">>
LowerChars == <<"a","b","c","d","e","f","g","h","i","j","k","l","m",
                "n","o","p","q","r","s","t","u","v","w","x","y","z">>

LowerOf == [k \in 1..Len(UpperChars) |-> LowerChars[k]]
UpperIndex == [c \in {UpperChars[k] : k \in 1..Len(UpperChars)} |->
                 CHOOSE k \in 1..Len(UpperChars) : UpperChars[k] = c]

LowerChar(c) == IF c \in DOMAIN UpperIndex THEN LowerOf[UpperIndex[c]] ELSE c

\* String.prototype.toLowerCase
ToLowerCase(str) == [i \in 1..Len(str) |-> LowerChar(str[i])]

IsSpace(c) == c \in {" ", "\t"}

RECURSIVE TrimStart(_)
TrimStart(str) ==
    IF str # <<>> /\ IsSpace(Head(str)) THEN TrimStart(Tail(str)) ELSE str

RECURSIVE TrimEnd(_)
TrimEnd(str) ==
    IF str # <<>> /\ IsSpace(str[Len(str)])
    THEN TrimEnd(SubSeq(str, 1, Len(str) - 1)) ELSE str

\* String.prototype.trim with trimStart in its place.
TrimStartOnly(str) == TrimStart(str)

\* String.prototype.trim
Trim(str) == TrimEnd(TrimStart(str))

\* ------------------------------------------------------------ the catalog

Chicken == <<"c","h","i","c","k","e","n">>
Rice    == <<"r","i","c","e">>
Eggs    == <<"e","g","g","s">>
Milk    == <<"m","i","l","k">>

\* Absent tag: null, undefined or "" (all falsy in `recipe.strCategory && ...`).
NoTag == <<>>

Recipe(id, category, area) ==
    [idMeal |-> id, strCategory |-> category, strArea |-> area]

RecipeA  == Recipe("A", <<"v","e","g","a","n">>, <<"T","h","a","i">>)
\* The same meal as the catalog lists it under another ingredient.
RecipeA2 == Recipe("A", <<"V","E","G","A","N">>, NoTag)
RecipeB  == Recipe("B", NoTag, <<"t","h","a","i">>)
RecipeC  == Recipe("C", <<"P","a","s","t","a">>, <<"G","r","e","e","k">>)

\* The JSON body of filter.php: meals is a list, null, or the field is missing.
Meals(list)  == [kind |-> "list", meals |-> list]
MealsNull    == [kind |-> "null", meals |-> <<>>]
MealsMissing == [kind |-> "missing", meals |-> <<>>]

Ingredients == {Chicken, Rice, Eggs, Milk}

CatalogOne ==
    [i \in Ingredients |->
        CASE i = Chicken -> Meals(<<RecipeA>>)
          [] i = Rice    -> Meals(<<RecipeA2, RecipeB>>)
          [] i = Eggs    -> Meals(<<RecipeB, RecipeB, RecipeC>>)
          [] i = Milk    -> MealsNull]

CatalogTwo ==
    [i \in Ingredients |->
        CASE i = Chicken -> Meals(<<RecipeC, RecipeA2>>)
          [] i = Rice    -> MealsMissing
          [] i = Eggs    -> Meals(<<RecipeA, RecipeC>>)
          [] i = Milk    -> Meals(<<>>)]

Catalogs == {CatalogOne, CatalogTwo}

\* How one request ends: a response with status 200 and the catalog's body, a
\* response with another status, a rejected fetch, or a body json() rejects.
Replies == {"ok", "http-error", "network-error", "bad-json"}

\* ---------------------------------------------------- search: pure parts

\* Mutant of FetchRecipesByIngredient: the `!response.ok` test is missing, so
\* the body of an error response is read as a result without meals.
FetchIgnoringStatus(body, reply) ==
    IF reply \in {"network-error", "bad-json"}
    THEN [ok |-> FALSE, meals |-> <<>>]
    ELSE [ok |-> TRUE,
          meals |-> IF reply = "ok" /\ body.kind = "list" THEN body.meals ELSE <<>>]

\* fetchRecipesByIngredient: throws unless the response is ok and parses;
\* returns `data.meals || []`.
FetchRecipesByIngredient(body, reply) ==
    IF reply # "ok"
    THEN [ok |-> FALSE, meals |-> <<>>]
    ELSE [ok |-> TRUE,
          meals |-> IF body.kind = "list" THEN body.meals ELSE <<>>]

\* results.flat()
RECURSIVE Flat(_)
Flat(results) ==
    IF results = <<>> THEN <<>> ELSE Head(results) \o Flat(Tail(results))

\* Mutant of DedupKeeps: `seen.has(recipe)` tests the object, which is never
\* among the identifiers.
DedupKeepsObject(recipe, seen) == TRUE

\* The filter callback of deduplicateRecipes: keep a recipe when its idMeal
\* is not in `seen`.
DedupKeeps(recipe, seen) == recipe.idMeal \notin seen

RECURSIVE DedupFrom(_, _)
DedupFrom(recipes, seen) ==
    IF recipes = <<>> THEN <<>>
    ELSE IF DedupKeeps(Head(recipes), seen)
         THEN <<Head(recipes)>>
              \o DedupFrom(Tail(recipes), seen \cup {Head(recipes).idMeal})
         ELSE DedupFrom(Tail(recipes), seen)

Reverse(seq) == [k \in 1..Len(seq) |-> seq[Len(seq) + 1 - k]]

\* Mutant of DeduplicateRecipes: the last occurrence of an identifier wins.
DeduplicateKeepLast(recipes) == Reverse(DedupFrom(Reverse(recipes), {}))

\* deduplicateRecipes
DeduplicateRecipes(recipes) == DedupFrom(recipes, {})

\* Mutant of GetMatchingIngredients: the slice is missing.
GetAllIngredients(recipe, searchIngredients) == searchIngredients

\* getMatchingIngredients: slice(0, min(length, 3)); the recipe is not read.
GetMatchingIngredients(recipe, searchIngredients) ==
    SubSeq(searchIngredients, 1,
           IF Len(searchIngredients) < MaxMatches
           THEN Len(searchIngredients) ELSE MaxMatches)

\* {...recipe, matchingIngredients: ...}
WithMatches(recipe, searchIngredients) ==
    [idMeal |-> recipe.idMeal, strCategory |-> recipe.strCategory,
     strArea |-> recipe.strArea,
     matchingIngredients |-> GetMatchingIngredients(recipe, searchIngredients)]

\* searchRecipes after Promise.all: flat, deduplicate, annotate.
MergeResults(results, ingredients) ==
    LET unique == DeduplicateRecipes(Flat(results))
    IN [k \in 1..Len(unique) |-> WithMatches(unique[k], ingredients)]

\* The predicates of applyFilters without their toLowerCase() calls.
TagMatchesExact(tag, criterion) == tag # NoTag /\ tag = criterion

\* The category and area predicates of applyFilters.
TagMatches(tag, criterion) ==
    tag # NoTag /\ ToLowerCase(tag) = ToLowerCase(criterion)

\* applyFilters without its `if (currentFilter.category)` and
\* `if (currentFilter.area)` tests.
FilterByTagsUnguarded(recipes, filter) ==
    LET CategoryOk(r) == TagMatches(r.strCategory, filter.category)
        AreaOk(r) == TagMatches(r.strArea, filter.area)
    IN SelectSeq(SelectSeq(recipes, CategoryOk), AreaOk)

FilterByTags(recipes, filter) ==
    LET CategoryOk(r) == filter.category = <<>>
                         \/ TagMatches(r.strCategory, filter.category)
        AreaOk(r) == filter.area = <<>> \/ TagMatches(r.strArea, filter.area)
    IN SelectSeq(SelectSeq(recipes, CategoryOk), AreaOk)

\* The simulated time filter: each recipe is kept when Math.random() exceeds
\* 1 - ratio; `keep` is the outcome of the draws, one per recipe.
RECURSIVE FilterByDraws(_, _)
FilterByDraws(recipes, keep) ==
    IF recipes = <<>> THEN <<>>
    ELSE IF Head(keep) THEN <<Head(recipes)>>
                            \o FilterByDraws(Tail(recipes), Tail(keep))
         ELSE FilterByDraws(Tail(recipes), Tail(keep))

\* applyFilters without its `if (currentFilter.time)` test.
DrawsAlways(recipes, filter) ==
    [1..Len(FilterByTags(recipes, filter)) -> BOOLEAN]

\* The draws applyFilters can make for `recipes` under `filter`: with no time
\* criterion nothing is drawn and every recipe is kept.
Draws(recipes, filter) ==
    LET n == Len(FilterByTags(recipes, filter))
    IN IF filter.time = "" THEN {[k \in 1..n |-> TRUE]}
       ELSE [1..n -> BOOLEAN]

\* applyFilters storing the recipes it keeps last first.
ApplyFiltersNewestFirst(recipes, filter, keep) ==
    Reverse(FilterByDraws(FilterByTags(recipes, filter), keep))

\* applyFilters: the value assigned to state.filteredRecipes.
ApplyFilters(recipes, filter, keep) ==
    FilterByDraws(FilterByTags(recipes, filter), keep)

\* renderRecipeGrid: the grid, or the error container when nothing is left.
GridView(filtered) == IF filtered = <<>> THEN "error" ELSE "grid"

SearchFailedMessage == "Failed to search recipes. Please try again."

\* ------------------------------------------------------- search: actions

\* data-recipe-id of the cards renderRecipeGrid writes for `recipes`.
Ids(recipes) == [k \in 1..Len(recipes) |-> recipes[k].idMeal]

InSeq(x, seq) == \E k \in 1..Len(seq) : seq[k] = x

Without(seq, x) == SelectSeq(seq, LAMBDA y : y # x)

RemoveAt(seq, k) == SubSeq(seq, 1, k - 1) \o SubSeq(seq, k + 1, Len(seq))

Pending == [done |-> FALSE, meals |-> <<>>]

\* Observer values: the handler that ran and whether it ran again on what it
\* had handled before (addIngredient with a token that is blank or names an
\* ingredient of the set, retrySearch after a failed search, handleFilterChange
\* with the criteria unchanged, a search succeeding for the ingredients of the
\* success before). For the end of a request also the reply, whether its run
\* was stale, how many requests of the run had succeeded before, whether the
\* requests of the run ended in another order than they were issued and
\* whether retrySearch started the run.
RepeatEvent(op, repeat) ==
    [op |-> op, stale |-> FALSE, reply |-> "none", succeeded |-> 0,
     repeat |-> repeat, reordered |-> FALSE, retry |-> FALSE]

Event(op) == RepeatEvent(op, FALSE)

FetchEvent(op, run, reply, repeat, reordered) ==
    [op |-> op, stale |-> run.stale, reply |-> reply,
     succeeded |-> Cardinality({k \in 1..Len(run.results) : run.results[k].done}),
     repeat |-> repeat, reordered |-> reordered, retry |-> run.retry]

NewRun(ingredients) ==
    [ingredients |-> ingredients,
     results |-> [k \in 1..Len(ingredients) |-> Pending],
     stale |-> FALSE, reordered |-> FALSE, retry |-> FALSE]

\* Results collected in the order the requests end, not in promise order.
StoreResultArrival(results, i, meals) ==
    LET slot == CHOOSE k \in 1..Len(results) :
                    ~results[k].done /\ \A j \in 1..(k - 1) : results[j].done
    IN [results EXCEPT ![slot] = [done |-> TRUE, meals |-> meals]]

\* Promise.all keeps each result at the position of its promise.
StoreResult(results, i, meals) ==
    [results EXCEPT ![i] = [done |-> TRUE, meals |-> meals]]

\* Observer: the ingredient set changed, so the runs in flight are stale.
MarkStale(runs) == [k \in 1..Len(runs) |-> [runs[k] EXCEPT !.stale = TRUE]]

\* searchRecipes up to its await, for the ingredient set `selected`, with
\* `runs` the runs in flight.
SearchRecipes(selected, runs) ==
    /\ IF selected = <<>>
       THEN /\ view' = "empty"
            /\ searches' = runs
            /\ UNCHANGED <<isLoading, error>>
       ELSE /\ isLoading' = TRUE
            /\ error' = Null
            /\ view' = "loading"
            /\ searches' = Append(runs, NewRun(selected))
    /\ UNCHANGED <<allRecipes, filteredRecipes, lastSuccess>>

\* Whether a handler that starts a search may run: `overlap` allows runs to
\* overlap (up to MaxInFlight), otherwise the user waits for the run in flight.
CanLaunch(overlap) ==
    IF overlap THEN Len(searches) < MaxInFlight ELSE searches = <<>>

\* addIngredient without its `!selectedIngredients.has(...)` test.
AcceptsDuplicates(normalizedIngredient, selected) == normalizedIngredient # <<>>

\* addIngredient's test on the normalized token.
Accepts(normalizedIngredient, selected) ==
    normalizedIngredient # <<>> /\ ~InSeq(normalizedIngredient, selected)

\* Observer: the token is blank, or the ingredient it names is in the set.
Blank(token) == \A i \in 1..Len(token) : IsSpace(token[i])
NamesMember(token, selected) == InSeq(Trim(ToLowerCase(token)), selected)

AddIngredient(ingredient, overlap) ==
    /\ LET normalizedIngredient == Trim(ToLowerCase(ingredient))
       IN IF Accepts(normalizedIngredient, selectedIngredients)
          THEN /\ CanLaunch(overlap)
               /\ selectedIngredients' =
                    Append(selectedIngredients, normalizedIngredient)
               /\ SearchRecipes(selectedIngredients', MarkStale(searches))
               /\ UNCHANGED <<currentFilter, catalog>>
          ELSE UNCHANGED <<selectedIngredients, allRecipes, filteredRecipes,
                           isLoading, error, currentFilter, view, catalog,
                           searches, lastSuccess>>
    /\ lastEvent' = RepeatEvent("addIngredient",
                                Blank(ingredient)
                                \/ NamesMember(ingredient, selectedIngredients))
    /\ UNCHANGED nonSearchVars

\* The chips, and so the remove buttons, are those of the selected ingredients.
RemoveIngredient(ingredient, overlap) ==
    /\ InSeq(ingredient, selectedIngredients)
    /\ Len(selectedIngredients) > 1 => CanLaunch(overlap)
    /\ selectedIngredients' = Without(selectedIngredients, ingredient)
    /\ IF Len(selectedIngredients') > 0
       THEN SearchRecipes(selectedIngredients', MarkStale(searches))
       ELSE /\ view' = "empty"
            /\ searches' = MarkStale(searches)
            /\ UNCHANGED <<allRecipes, filteredRecipes, isLoading, error,
                           lastSuccess>>
    /\ lastEvent' = Event("removeIngredient")
    /\ UNCHANGED <<currentFilter, catalog>>
    /\ UNCHANGED nonSearchVars

\* clearAllIngredients without `this.state.filteredRecipes = []`.
ClearKeepsFiltered ==
    /\ selectedIngredients' = <<>>
    /\ allRecipes' = <<>>
    /\ error' = Null
    /\ view' = "empty"
    /\ searches' = MarkStale(searches)
    /\ lastEvent' = Event("clearAllIngredients")
    /\ lastSuccess' = <<>>
    /\ UNCHANGED <<filteredRecipes, isLoading, currentFilter, catalog>>
    /\ UNCHANGED nonSearchVars

ClearAllIngredients ==
    /\ selectedIngredients' = <<>>
    /\ allRecipes' = <<>>
    /\ filteredRecipes' = <<>>
    /\ error' = Null
    /\ view' = "empty"
    /\ searches' = MarkStale(searches)
    /\ lastEvent' = Event("clearAllIngredients")
    /\ lastSuccess' = <<>>
    /\ UNCHANGED <<isLoading, currentFilter, catalog>>
    /\ UNCHANGED nonSearchVars

\* The retry button is part of the error container.
\* retrySearch with the ingredient set taken for empty on every call.
RetryWithoutSearch(overlap) ==
    /\ view = "error"
    /\ view' = "empty"
    /\ error' = Null
    /\ lastEvent' = RepeatEvent("retrySearch", error = SearchFailedMessage)
    /\ UNCHANGED <<selectedIngredients, allRecipes, filteredRecipes, isLoading,
                   currentFilter, catalog, searches, lastSuccess>>
    /\ UNCHANGED nonSearchVars

RetrySearch(overlap) ==
    /\ view = "error"
    /\ selectedIngredients # <<>> => CanLaunch(overlap)
    /\ IF selectedIngredients # <<>>
       THEN /\ isLoading' = TRUE
            /\ view' = "loading"
            /\ searches' = Append(searches, [NewRun(selectedIngredients)
                                              EXCEPT !.retry = TRUE])
       ELSE /\ view' = "empty"
            /\ UNCHANGED <<isLoading, searches>>
    /\ error' = Null
    /\ lastEvent' = RepeatEvent("retrySearch", error = SearchFailedMessage)
    /\ UNCHANGED <<selectedIngredients, allRecipes, filteredRecipes,
                   currentFilter, catalog, lastSuccess>>
    /\ UNCHANGED nonSearchVars

\* Promise.any in the place of Promise.all: the first result resolves it.
AnyDone(results) == \E k \in 1..Len(results) : results[k].done

AllDone(results) == \A k \in 1..Len(results) : results[k].done

\* The catch block of searchRecipes without `this.state.isLoading = false`.
LoadingKeptAfterFailure(loading) == loading

\* The catch block of searchRecipes: `this.state.isLoading = false`.
LoadingAfterFailure(loading) == FALSE

\* The request of run r for its i-th ingredient ends with `reply`. A failure
\* rejects Promise.all and runs the catch block of searchRecipes; the last
\* success resolves it and runs the rest of the try block, where applyFilters
\* makes its draws.
FetchSettles(r, i, reply) ==
    /\ r \in 1..Len(searches)
    /\ i \in 1..Len(searches[r].results)
    /\ ~searches[r].results[i].done
    /\ LET run == searches[r]
           got == FetchRecipesByIngredient(catalog[run.ingredients[i]], reply)
           results == StoreResult(run.results, i, got.meals)
           reordered == run.reordered
                        \/ \E k \in 1..(i - 1) : ~run.results[k].done
           merged == MergeResults([k \in 1..Len(results) |-> results[k].meals],
                                  run.ingredients)
       IN IF ~got.ok
          THEN /\ error' = SearchFailedMessage
               /\ isLoading' = LoadingAfterFailure(isLoading)
               /\ view' = "error"
               /\ searches' = RemoveAt(searches, r)
               /\ lastEvent' = FetchEvent("searchFailed", run, reply, FALSE, reordered)
               /\ UNCHANGED <<allRecipes, filteredRecipes, lastSuccess>>
          ELSE IF AllDone(results)
          THEN /\ allRecipes' = merged
               /\ isLoading' = FALSE
               /\ \E keep \in Draws(merged, currentFilter) :
                     filteredRecipes' = ApplyFilters(merged, currentFilter, keep)
               /\ view' = GridView(filteredRecipes')
               /\ searches' = RemoveAt(searches, r)
               /\ lastEvent' = FetchEvent("searchSucceeded", run, reply,
                                         run.ingredients = lastSuccess, reordered)
               /\ lastSuccess' = run.ingredients
               /\ UNCHANGED error
          ELSE /\ searches' = [searches EXCEPT ![r].results = results,
                                           ![r].reordered = reordered]
               /\ lastEvent' = FetchEvent("fetchSettled", run, reply, FALSE, reordered)
               /\ UNCHANGED <<allRecipes, filteredRecipes, isLoading, error,
                              view, lastSuccess>>
    /\ UNCHANGED <<selectedIngredients, currentFilter, catalog>>
    /\ UNCHANGED nonSearchVars

\* The options of the three filter selects that the model uses ("" is "all").
FilterOptions ==
    [time |-> {"", "quick"},
     category |-> {<<>>, <<"V","e","g","a","n">>},
     area |-> {<<>>, <<"T","h","a","i">>}]

\* handleFilterChange with an applyFilters that narrows state.allRecipes
\* itself.
HandleFilterChangeInPlace(filterType, value) ==
    /\ currentFilter' = [currentFilter EXCEPT ![filterType] = value]
    /\ \E keep \in Draws(allRecipes, currentFilter') :
          filteredRecipes' = ApplyFilters(allRecipes, currentFilter', keep)
    /\ allRecipes' = filteredRecipes'
    /\ view' = GridView(filteredRecipes')
    /\ lastEvent' = RepeatEvent("handleFilterChange", currentFilter' = currentFilter)
    /\ UNCHANGED <<selectedIngredients, isLoading, error, catalog,
                   searches, lastSuccess>>
    /\ UNCHANGED nonSearchVars

\* handleFilterChange: currentFilter[filterType] = value; applyFilters().
HandleFilterChange(filterType, value) ==
    /\ currentFilter' = [currentFilter EXCEPT ![filterType] = value]
    /\ \E keep \in Draws(allRecipes, currentFilter') :
          filteredRecipes' = ApplyFilters(allRecipes, currentFilter', keep)
    /\ view' = GridView(filteredRecipes')
    /\ lastEvent' = RepeatEvent("handleFilterChange", currentFilter' = currentFilter)
    /\ UNCHANGED <<selectedIngredients, allRecipes, isLoading, error, catalog,
                   searches, lastSuccess>>
    /\ UNCHANGED nonSearchVars

\* The state the constructor and init() leave, against one of `catalogs`.
InitSearch(catalogs) ==
    /\ selectedIngredients = <<>>
    /\ allRecipes = <<>>
    /\ filteredRecipes = <<>>
    /\ isLoading = FALSE
    /\ error = Null
    /\ currentFilter = [time |-> "", category |-> <<>>, area |-> <<>>]
    /\ view = "empty"
    /\ catalog \in catalogs
    /\ searches = <<>>
    /\ lastEvent = Event("init")
    /\ lastSuccess = <<>>

\* ------------------------------------------------------------ recipe modal

RandomFailedMessage == "Failed to load random recipe. Please try again."
DetailsFailedMessage == "Failed to load recipe details. Please try again."

\* What random.php can answer with, and the replies to the two requests:
\* "empty" is a body with no meals, "no-instructions" a recipe whose
\* strInstructions is null.
RandomIds == {"C"}
RandomReplies == {"ok", "empty", "http-error", "network-error"}
DetailsReplies == RandomReplies \cup {"no-instructions"}

RandomRequest == [kind |-> "random", id |-> Null]
DetailsRequest(recipeId) == [kind |-> "details", id |-> recipeId]

DetailEvent(op, reply) == [Event(op) EXCEPT !.reply = reply]

\* hideLoadingState: hides the loading container and shows nothing else.
HideLoadingState(shown) == IF shown = "loading" THEN "none" ELSE shown

\* A click or Enter on a card of the grid: showRecipeModal up to its await.
ShowRecipeModal(recipeId) ==
    /\ view = "grid"
    /\ InSeq(recipeId, Ids(filteredRecipes))
    /\ Len(lookups) < MaxLookups
    /\ lookups' = Append(lookups, DetailsRequest(recipeId))
    /\ latestRequest' = {recipeId}
    /\ lastEvent' = Event("showRecipeModal")
    /\ UNCHANGED <<selectedIngredients, allRecipes, filteredRecipes, isLoading,
                   error, currentFilter, view, catalog, searches, lastSuccess>>
    /\ UNCHANGED <<currentRecipe, modalOpen, favorites, toast>>
    /\ UNCHANGED timerVars

\* showRecipeModal without its `if (!response.ok)` test: the body of an
\* error reply is taken for the recipe.
DetailsIgnoringStatus(reply) ==
    reply \in {"ok", "no-instructions", "http-error"}

\* showRecipeModal reaches `const recipe = data.meals[0]`.
DetailsFound(reply) == reply \in {"ok", "no-instructions"}

\* The reply to a lookup.php request: the rest of showRecipeModal. A recipe
\* without strInstructions makes renderRecipeModal throw after currentRecipe
\* was assigned and before openModal.
DetailsSettles(k, reply) ==
    /\ k \in 1..Len(lookups)
    /\ lookups[k].kind = "details"
    /\ lookups' = RemoveAt(lookups, k)
    /\ IF DetailsFound(reply) /\ reply # "no-instructions"
       THEN /\ currentRecipe' = lookups[k].id
            /\ modalOpen' = TRUE
            /\ lastEvent' = DetailEvent("detailsShown", reply)
            /\ UNCHANGED <<toast, latestRequest>>
       ELSE IF DetailsFound(reply)
       THEN /\ currentRecipe' = lookups[k].id
            /\ toast' = DetailsFailedMessage
            /\ latestRequest' = {}
            /\ lastEvent' = DetailEvent("detailsRenderFailed", reply)
            /\ UNCHANGED modalOpen
       ELSE /\ toast' = DetailsFailedMessage
            /\ latestRequest' = {}
            /\ lastEvent' = DetailEvent("detailsFailed", reply)
            /\ UNCHANGED <<currentRecipe, modalOpen>>
    /\ UNCHANGED <<selectedIngredients, allRecipes, filteredRecipes, isLoading,
                   error, currentFilter, view, catalog, searches, lastSuccess>>
    /\ UNCHANGED favorites
    /\ UNCHANGED timerVars

\* getRandomRecipe up to its await.
GetRandomRecipe ==
    /\ Len(lookups) < MaxLookups
    /\ isLoading' = TRUE
    /\ view' = "loading"
    /\ lookups' = Append(lookups, RandomRequest)
    /\ lastEvent' = Event("getRandomRecipe")
    /\ UNCHANGED <<selectedIngredients, allRecipes, filteredRecipes, error,
                   currentFilter, catalog, searches, lastSuccess>>
    /\ UNCHANGED <<currentRecipe, modalOpen, favorites, toast, latestRequest>>
    /\ UNCHANGED timerVars

\* The reply to a random.php request: the rest of getRandomRecipe, which on
\* success calls showRecipeModal with the idMeal it got.
RandomSettles(k, reply, recipeId) ==
    /\ k \in 1..Len(lookups)
    /\ lookups[k].kind = "random"
    /\ isLoading' = FALSE
    /\ IF reply = "ok"
       THEN /\ view' = HideLoadingState(view)
            /\ lookups' = Append(RemoveAt(lookups, k), DetailsRequest(recipeId))
            /\ latestRequest' = {recipeId}
            /\ lastEvent' = DetailEvent("randomFound", reply)
            /\ UNCHANGED error
       ELSE /\ error' = RandomFailedMessage
            /\ view' = "error"
            /\ lookups' = RemoveAt(lookups, k)
            /\ lastEvent' = DetailEvent("randomFailed", reply)
            /\ UNCHANGED latestRequest
    /\ UNCHANGED <<selectedIngredients, allRecipes, filteredRecipes,
                   currentFilter, catalog, searches, lastSuccess>>
    /\ UNCHANGED <<currentRecipe, modalOpen, favorites, toast>>
    /\ UNCHANGED timerVars

\* closeModal: the close button, a click on the overlay or Escape.
CloseModal ==
    /\ modalOpen' = FALSE
    /\ currentRecipe' = Null
    /\ latestRequest' = {Null}
    /\ lastEvent' = Event("closeModal")
    /\ UNCHANGED <<selectedIngredients, allRecipes, filteredRecipes, isLoading,
                   error, currentFilter, view, catalog, searches, lastSuccess>>
    /\ UNCHANGED <<favorites, toast, lookups>>
    /\ UNCHANGED timerVars

\* toggleFavorite without its favorites.has test.
AddedFavorite(favs, recipeId) == favs \cup {recipeId}

\* What toggleFavorite makes of state.favorites for the current recipe.
ToggledFavorites(favs, recipeId) ==
    IF recipeId \in favs THEN favs \ {recipeId} ELSE favs \cup {recipeId}

\* toggleFavorite: a click on #favorite-btn, which returns at once when there
\* is no current recipe.
ToggleFavorite ==
    /\ IF currentRecipe = Null
       THEN UNCHANGED <<favorites, toast>>
       ELSE /\ favorites' = ToggledFavorites(favorites, currentRecipe)
            /\ toast' = IF currentRecipe \in favorites
                        THEN "Removed from favorites"
                        ELSE "Added to favorites!"
    /\ lastEvent' = Event("toggleFavorite")
    /\ UNCHANGED <<selectedIngredients, allRecipes, filteredRecipes, isLoading,
                   error, currentFilter, view, catalog, searches, lastSuccess>>
    /\ UNCHANGED <<currentRecipe, modalOpen, lookups, latestRequest>>
    /\ UNCHANGED timerVars

InitDetail ==
    /\ currentRecipe = Null
    /\ modalOpen = FALSE
    /\ favorites = {}
    /\ toast = "none"
    /\ lookups = <<>>
    /\ latestRequest = {Null}

\* ------------------------------------------------------------------- timer

\* Observer: no countdown is being followed (the last startTimer found an
\* interval already registered, or another operation ran since).
NoRun == [kind |-> "none", initial |-> 0, ticks |-> 0]

Durations == (1..MaxDuration) \cup {90}

\* updateTimerDisplay: minutes = floor(t / 60), seconds = t % 60.
TimerText(t) == <<t \div 60, t % 60>>

\* A setTimer that also stops the countdown.
SetTimerStopping(ts, seconds) ==
    [ts EXCEPT !.timeRemaining = seconds, !.isRunning = FALSE]

\* setTimer(seconds): timeRemaining = seconds; updateTimerDisplay().
SetTimerState(ts, seconds) == [ts EXCEPT !.timeRemaining = seconds]

\* A pauseTimer that also forgets the time remaining.
PauseTimerZeroes(ts) ==
    [ts EXCEPT !.isRunning = FALSE, !.interval = NullHandle,
               !.timeRemaining = 0]

\* A pauseTimer that keeps the handle it cleared.
PauseKeepsHandle(ts) == [ts EXCEPT !.isRunning = FALSE]

\* pauseTimer(): clearInterval(interval) if set; isRunning = false; interval = null.
PauseTimerState(ts) == [ts EXCEPT !.isRunning = FALSE, !.interval = NullHandle]

ClearInterval(active, handle) == active \ {handle}

\* The timer state startTimer leaves, before the setInterval call.
StartRemaining(ts) ==
    IF ts.timeRemaining <= 0 THEN DefaultDuration ELSE ts.timeRemaining

\* What startTimer does to the interval table: it registers a new interval and
\* clears nothing.
StartIntervals(active, ts, handle) == active \cup {handle}

SetTimer(seconds) ==
    /\ timerState' = SetTimerState(timerState, seconds)
    /\ timerDisplay' = TimerText(seconds)
    /\ lastTimerOp' = "setTimer"
    /\ lastEvent' = Event("setTimer")
    /\ timerRun' = NoRun
    /\ pausedAt' = {}
    /\ halted' = IF halted = "paused" THEN "none" ELSE halted
    /\ UNCHANGED <<activeIntervals, nextHandle, finishedCount>>
    /\ UNCHANGED nonTimerVars

StartTimer ==
    /\ nextHandle <= MaxHandles
    /\ LET remaining == StartRemaining(timerState)
           fresh == activeIntervals = {} /\ ~timerState.isRunning
       IN /\ timerState' = [timerState EXCEPT !.timeRemaining = remaining,
                                               !.isRunning = TRUE,
                                               !.interval = nextHandle]
          /\ timerDisplay' = IF timerState.timeRemaining <= 0
                             THEN TimerText(remaining) ELSE timerDisplay
          /\ timerRun' =
               [kind |-> IF ~fresh THEN "none"
                         ELSE IF timerState.timeRemaining <= 0 THEN "default"
                         ELSE IF lastTimerOp = "setTimer" THEN "set"
                         ELSE "resume",
                initial |-> IF fresh THEN remaining ELSE 0,
                ticks |-> 0]
    /\ activeIntervals' = StartIntervals(activeIntervals, timerState, nextHandle)
    /\ nextHandle' = nextHandle + 1
    /\ lastTimerOp' = "startTimer"
    /\ lastEvent' = Event("startTimer")
    /\ finishedCount' = 0
    /\ halted' = "none"
    /\ UNCHANGED pausedAt
    /\ UNCHANGED nonTimerVars

PauseTimer ==
    /\ timerState' = PauseTimerState(timerState)
    /\ activeIntervals' = IF timerState.interval # NullHandle
                          THEN ClearInterval(activeIntervals, timerState.interval)
                          ELSE activeIntervals
    /\ lastTimerOp' = "pauseTimer"
    /\ lastEvent' = Event("pauseTimer")
    /\ timerRun' = NoRun
    /\ pausedAt' = IF timerState.isRunning THEN {timerState.timeRemaining}
                   ELSE pausedAt
    /\ halted' = "paused"
    /\ UNCHANGED <<nextHandle, timerDisplay, finishedCount>>
    /\ UNCHANGED nonTimerVars

ResetTimer ==
    /\ timerState' = SetTimerState(PauseTimerState(timerState), 0)
    /\ activeIntervals' = IF timerState.interval # NullHandle
                          THEN ClearInterval(activeIntervals, timerState.interval)
                          ELSE activeIntervals
    /\ timerDisplay' = TimerText(0)
    /\ lastTimerOp' = "resetTimer"
    /\ lastEvent' = Event("resetTimer")
    /\ timerRun' = NoRun
    /\ pausedAt' = {}
    /\ halted' = "reset"
    /\ UNCHANGED <<nextHandle, finishedCount>>
    /\ UNCHANGED nonTimerVars

\* tickTimer with `>= 0` for its test.
TickDecrementsAtZero(ts) == ts.timeRemaining >= 0

\* tickTimer's test: decrement while this holds, otherwise finish.
TickDecrements(ts) == ts.timeRemaining > 0

\* One firing of a registered interval: tickTimer().
Tick ==
    /\ activeIntervals # {}
    /\ finishedCount < MaxFinished
    /\ IF TickDecrements(timerState)
       THEN /\ timerState' = [timerState EXCEPT !.timeRemaining = @ - 1]
            /\ timerDisplay' = TimerText(timerState.timeRemaining - 1)
            /\ UNCHANGED <<activeIntervals, finishedCount>>
            /\ pausedAt' = IF lastTimerOp = "startTimer" THEN {} ELSE pausedAt
       ELSE /\ timerState' = PauseTimerState(timerState)
            /\ activeIntervals' =
                 IF timerState.interval # NullHandle
                 THEN ClearInterval(activeIntervals, timerState.interval)
                 ELSE activeIntervals
            /\ finishedCount' = finishedCount + 1
            /\ pausedAt' = {}
            /\ UNCHANGED timerDisplay
    /\ timerRun' = IF timerRun.kind = "none" THEN timerRun
                   ELSE [timerRun EXCEPT !.ticks = @ + 1]
    /\ lastTimerOp' = "tick"
    /\ lastEvent' = Event("tick")
    /\ UNCHANGED <<nextHandle, halted>>
    /\ UNCHANGED nonTimerVars

InitTimer ==
    /\ timerState = [isRunning |-> FALSE, isPaused |-> FALSE,
                     timeRemaining |-> 0, interval |-> NullHandle]
    /\ activeIntervals = {}
    /\ nextHandle = 1
    /\ timerDisplay = TimerText(0)
    /\ lastTimerOp = "none"
    /\ timerRun = NoRun
    /\ finishedCount = 0
    /\ pausedAt = {}
    /\ halted = "none"

NextTimer ==
    \/ \E seconds \in Durations : SetTimer(seconds)
    \/ StartTimer
    \/ PauseTimer
    \/ ResetTimer
    \/ Tick

\* ---------------------------------------------------------- specifications

Init == InitSearch(Catalogs) /\ InitTimer /\ InitDetail

InitOneCatalog == InitSearch({CatalogOne}) /\ InitTimer /\ InitDetail

\* What the user types or clicks: two ingredients, with case and whitespace.
Tokens ==
    {Chicken, <<" ","R","i","c","e">>, <<"C","H","I","C","K","E","N"," ">>,
     Rice, <<" ">>, <<>>}

\* Four ingredients, so that more than MaxMatches are selected.
WideTokens == {Chicken, <<"R","I","C","E"," ">>, Eggs, <<" ","m","i","l","k">>}

\* The search with overlapping runs and the category and area filters.
NextSearch ==
    \/ \E token \in Tokens : AddIngredient(token, TRUE)
    \/ \E ingredient \in Ingredients : RemoveIngredient(ingredient, TRUE)
    \/ ClearAllIngredients
    \/ RetrySearch(TRUE)
    \/ \E r \in 1..MaxInFlight, i \in 1..Cardinality(Ingredients),
          reply \in Replies : FetchSettles(r, i, reply)
    \/ \E filterType \in {"category", "area"} :
          \E value \in FilterOptions[filterType] :
             HandleFilterChange(filterType, value)

SpecSearch == Init /\ [][NextSearch]_vars

\* The search of a user who waits for each run to end, over four ingredients.
NextWide ==
    \/ \E token \in WideTokens : AddIngredient(token, FALSE)
    \/ \E ingredient \in Ingredients : RemoveIngredient(ingredient, FALSE)
    \/ ClearAllIngredients
    \/ RetrySearch(FALSE)
    \/ \E i \in 1..Cardinality(Ingredients), reply \in Replies :
          FetchSettles(1, i, reply)

SpecWide == Init /\ [][NextWide]_vars

\* The timer alone.
SpecTimer == InitOneCatalog /\ [][NextTimer]_vars

\* The three filters, the random draws of the time filter included, over the
\* search of a user who waits for each run to end.
NextFilter ==
    \/ \E token \in Tokens : AddIngredient(token, FALSE)
    \/ \E ingredient \in Ingredients : RemoveIngredient(ingredient, FALSE)
    \/ ClearAllIngredients
    \/ RetrySearch(FALSE)
    \/ \E i \in 1..Cardinality(Ingredients), reply \in Replies :
          FetchSettles(1, i, reply)
    \/ \E filterType \in DOMAIN FilterOptions :
          \E value \in FilterOptions[filterType] :
             HandleFilterChange(filterType, value)

SpecFilter == Init /\ [][NextFilter]_vars

\* The recipe modal, the random recipe and the favorites, over the search of
\* a user who waits for each run to end.
SimpleTokens == {Rice}

NextDetail ==
    \/ \E token \in SimpleTokens : AddIngredient(token, FALSE)
    \/ \E ingredient \in Ingredients : RemoveIngredient(ingredient, FALSE)
    \/ ClearAllIngredients
    \/ RetrySearch(FALSE)
    \/ \E i \in 1..Cardinality(Ingredients), reply \in Replies :
          FetchSettles(1, i, reply)
    \/ ShowRecipeModal("A")
    \/ GetRandomRecipe
    \/ \E k \in 1..MaxLookups, reply \in DetailsReplies : DetailsSettles(k, reply)
    \/ \E k \in 1..MaxLookups, reply \in RandomReplies, recipeId \in RandomIds :
          RandomSettles(k, reply, recipeId)
    \/ CloseModal
    \/ ToggleFavorite

SpecDetail == InitOneCatalog /\ [][NextDetail]_vars

\* The filters next to a search, a favorite and a timer preset: what a filter
\* change must leave alone.
NextFrame ==
    \/ \E token \in SimpleTokens : AddIngredient(token, FALSE)
    \/ \E i \in 1..Cardinality(Ingredients), reply \in Replies :
          FetchSettles(1, i, reply)
    \/ \E filterType \in DOMAIN FilterOptions :
          \E value \in FilterOptions[filterType] :
             HandleFilterChange(filterType, value)
    \/ ShowRecipeModal("A")
    \/ \E k \in 1..MaxLookups : DetailsSettles(k, "ok")
    \/ ToggleFavorite
    \/ \E seconds \in Durations : SetTimer(seconds)

SpecFrame == InitOneCatalog /\ [][NextFrame]_vars

\* Overlapping searches (a retry while a run is in flight) in which every
\* request ends: the requests of the oldest run in flight are answered in
\* the end.
NextLive ==
    \/ \E token \in SimpleTokens : AddIngredient(token, TRUE)
    \/ \E ingredient \in Ingredients : RemoveIngredient(ingredient, TRUE)
    \/ ClearAllIngredients
    \/ RetrySearch(TRUE)
    \/ \E r \in 1..MaxInFlight, i \in 1..Cardinality(Ingredients),
          reply \in Replies : FetchSettles(r, i, reply)

OldestSettles ==
    \E i \in 1..Cardinality(Ingredients), reply \in Replies :
        FetchSettles(1, i, reply)

SpecLive == InitOneCatalog /\ [][NextLive]_vars /\ WF_vars(OldestSettles)


\* ----------------------------------------------------------- search claims

\* C1: the result set stored by a successful search holds every idMeal at
\* most once.
C1_NoDuplicateIds ==
    \A j, k \in 1..Len(allRecipes) :
        allRecipes[j].idMeal = allRecipes[k].idMeal => j = k

\* A search over chicken, rice and eggs succeeded: A is returned for two
\* ingredients and B twice in one response.
C1_Witness ==
    /\ lastEvent.op = "searchSucceeded"
    /\ catalog = CatalogOne
    /\ lastSuccess = <<Chicken, Rice, Eggs>>
    /\ Ids(allRecipes) = <<"A", "B", "C">>

\* C2: a request that fails ends its run in the error outcome (state.error
\* set, error view, isLoading false) and the step assigns neither
\* state.allRecipes nor state.filteredRecipes.
C2_FailureIsAllOrNothing ==
    [][lastEvent'.reply \notin {"ok", "none"} =>
          /\ lastEvent'.op = "searchFailed"
          /\ error' = SearchFailedMessage
          /\ view' = "error"
          /\ ~isLoading'
          /\ allRecipes' = allRecipes
          /\ filteredRecipes' = filteredRecipes]_vars

\* A run failed after one of its requests had succeeded, while an earlier
\* result set was stored.
C2_Witness ==
    /\ lastEvent.op = "searchFailed"
    /\ lastEvent.succeeded >= 1
    /\ allRecipes # <<>>
    /\ error = SearchFailedMessage

\* C3: the completion of a run that was in flight when the ingredient set
\* changed writes neither state.allRecipes, state.filteredRecipes, state.error
\* nor the displayed view.
C3_StaleCompletionDiscarded ==
    [][(lastEvent'.stale /\ lastEvent'.op \in {"searchSucceeded", "searchFailed"})
          => UNCHANGED <<allRecipes, filteredRecipes, error, view>>]_vars

\* C5: while the ingredient set is empty the displayed state is 'empty' and no
\* run was started for the empty set.
C5_EmptySetShowsEmpty ==
    selectedIngredients = <<>> =>
        /\ view = "empty"
        /\ \A k \in 1..Len(searches) : searches[k].ingredients # <<>>

\* The first entries of seq, at most three of them.
FirstThree(seq) == [k \in 1..(IF Len(seq) <= 3 THEN Len(seq) ELSE 3) |-> seq[k]]

\* C6: every stored recipe carries the first min(n, 3) ingredients of the
\* run's ingredient sequence as matchingIngredients.
C6_MatchingIngredients ==
    \A k \in 1..Len(allRecipes) :
        allRecipes[k].matchingIngredients = FirstThree(lastSuccess)

\* A search over four ingredients stored recipes.
C6_Witness ==
    /\ lastEvent.op = "searchSucceeded"
    /\ Len(lastSuccess) = 4
    /\ allRecipes # <<>>

\* What the catalog returns for a sequence of ingredients, in that order.
RECURSIVE Responses(_)
Responses(ingredients) ==
    IF ingredients = <<>> THEN <<>>
    ELSE (IF catalog[Head(ingredients)].kind = "list"
          THEN catalog[Head(ingredients)].meals ELSE <<>>)
         \o Responses(Tail(ingredients))

\* The positions of seq at which an idMeal occurs for the first time.
FirstOccurrences(seq) ==
    {k \in 1..Len(seq) : \A j \in 1..(k - 1) : seq[j].idMeal # seq[k].idMeal}

\* The n-th smallest member of a set of numbers.
Nth(S, n) == CHOOSE k \in S : Cardinality({j \in S : j < k}) = n - 1

Summary(recipe) == Recipe(recipe.idMeal, recipe.strCategory, recipe.strArea)

\* C7: the stored result is the concatenation of the responses in ingredient
\* order with every recipe kept at its first occurrence only; chicken -> [A],
\* rice -> [A, B] gives [A, B], both annotated [chicken, rice].
C7_FirstSeenWins ==
    LET all == Responses(lastSuccess)
        first == FirstOccurrences(all)
    IN /\ Len(allRecipes) = Cardinality(first)
       /\ \A k \in 1..Len(allRecipes) :
             Summary(allRecipes[k]) = all[Nth(first, k)]
       /\ (catalog = CatalogOne /\ lastSuccess = <<Chicken, Rice>>) =>
             /\ Ids(allRecipes) = <<"A", "B">>
             /\ Summary(allRecipes[1]) = RecipeA
             /\ \A k \in 1..2 :
                   allRecipes[k].matchingIngredients = <<Chicken, Rice>>

\* The search over chicken and rice succeeded against the first catalog.
C7_Witness ==
    /\ lastEvent.op = "searchSucceeded"
    /\ catalog = CatalogOne
    /\ lastSuccess = <<Chicken, Rice>>
    /\ Len(allRecipes) = 2

\* C13: the step in which a request of a run ends while others of the run are
\* pending assigns neither state.allRecipes nor state.filteredRecipes; the
\* step that stores a run's result is the end of its last request, after all
\* the others succeeded, and what it stores holds every recipe of every
\* response of the run.
C13_WrittenAfterBarrier ==
    [][/\ lastEvent'.op = "fetchSettled" =>
             UNCHANGED <<allRecipes, filteredRecipes>>
       /\ lastEvent'.op = "searchSucceeded" =>
             /\ lastEvent'.succeeded + 1 = Len(lastSuccess')
             /\ \A k \in 1..Len(Responses(lastSuccess')) :
                   InSeq(Responses(lastSuccess')[k].idMeal, Ids(allRecipes'))
      ]_vars

\* The first request of a run has succeeded, the other is pending, and the
\* result of an earlier search is still stored.
C13_Witness ==
    /\ lastEvent.op = "fetchSettled"
    /\ lastEvent.reply = "ok"
    /\ lastEvent.succeeded = 0
    /\ isLoading
    /\ allRecipes # <<>>
    /\ filteredRecipes = allRecipes

\* C14: whenever the ingredient set is empty (after removeIngredient of the
\* last ingredient or clearAllIngredients, and across filter changes and the
\* ends of earlier searches) state.allRecipes and state.filteredRecipes are
\* empty.
C14_EmptySetClearsResults ==
    selectedIngredients = <<>> => (allRecipes = <<>> /\ filteredRecipes = <<>>)

\* C15: when a search succeeds for the ingredient sequence of the success
\* before it, against the same catalog, it stores the same sequence of
\* idMeal, in whichever order the requests of either run ended.
C15_SettleOrderIrrelevant ==
    [][(lastEvent'.op = "searchSucceeded" /\ lastSuccess' = lastSuccess)
       => Ids(allRecipes') = Ids(allRecipes)]_vars

\* A search over at least two ingredients succeeded a second time in a row,
\* its requests having ended out of order, and stored two recipes or more.
C15_Witness ==
    /\ lastEvent.op = "searchSucceeded"
    /\ lastEvent.repeat
    /\ lastEvent.reordered
    /\ Len(lastSuccess) >= 2
    /\ Len(allRecipes) >= 2

\* What a successful search over `ingredients` stores: the merge of the
\* catalog's answers, a missing or null list counting as empty.
SuccessResult(ingredients) ==
    MergeResults([k \in 1..Len(ingredients) |->
                     IF catalog[ingredients[k]].kind = "list"
                     THEN catalog[ingredients[k]].meals ELSE <<>>],
                 ingredients)

\* C18: retrySearch from the error state of a failed search, with ingredients
\* selected, clears state.error, leaves the ingredient set as it was and
\* starts one run with one pending request per selected ingredient; a run
\* that succeeds, started by retrySearch or not, leaves the state that
\* depends on its ingredients alone: the merged result stored and displayed,
\* no error, isLoading false.
C18_RetryRunsSearchAgain ==
    [][/\ (lastEvent'.op = "retrySearch" /\ lastEvent'.repeat
           /\ selectedIngredients # <<>>) =>
             /\ error' = Null
             /\ isLoading'
             /\ selectedIngredients' = selectedIngredients
             /\ Len(searches') = Len(searches) + 1
             /\ LET run == searches'[Len(searches')]
                IN /\ run.ingredients = selectedIngredients
                   /\ Len(run.results) = Len(selectedIngredients)
                   /\ \A k \in 1..Len(run.results) : run.results[k] = Pending
       /\ lastEvent'.op = "searchSucceeded" =>
             /\ allRecipes' = SuccessResult(lastSuccess')
             /\ filteredRecipes' = allRecipes'
             /\ view' = GridView(allRecipes')
             /\ error' = Null
             /\ ~isLoading'
             /\ selectedIngredients' = selectedIngredients
      ]_vars

\* The run retrySearch started for three ingredients after a failed search
\* has succeeded and its result is displayed.
C18_Witness ==
    /\ lastEvent.op = "searchSucceeded"
    /\ lastEvent.retry
    /\ Len(lastSuccess) = 3
    /\ selectedIngredients = lastSuccess
    /\ view = "grid"
    /\ error = Null

UpperCase == {UpperChars[i] : i \in 1..Len(UpperChars)}

\* C27: every member of state.selectedIngredients is a non-empty string with
\* no upper-case letter and no space at either end, and no two members are
\* the same string.
C27_IngredientsNormalized ==
    \A k \in 1..Len(selectedIngredients) :
        LET member == selectedIngredients[k]
        IN /\ member # <<>>
           /\ \A i \in 1..Len(member) : member[i] \notin UpperCase
           /\ ~IsSpace(member[1])
           /\ ~IsSpace(member[Len(member)])
           /\ \A j \in 1..Len(selectedIngredients) :
                 selectedIngredients[j] = member => j = k

\* "rice" and "milk" are selected: they were typed "RICE " and " milk".
C27_Witness ==
    /\ lastEvent.op = "addIngredient"
    /\ InSeq(Rice, selectedIngredients)
    /\ InSeq(Milk, selectedIngredients)

\* C28: addIngredient with a token that is empty or blank, or that names an
\* ingredient already in the set, changes neither the ingredient set nor
\* state.allRecipes, filteredRecipes, error and isLoading, starts no search
\* and leaves the displayed view as it was.
C28_RejectedTokenIsNoOp ==
    [][(lastEvent'.op = "addIngredient" /\ lastEvent'.repeat) =>
          UNCHANGED <<selectedIngredients, allRecipes, filteredRecipes, error,
                      isLoading, searches, view>>]_vars

\* A rejected token arrived while the result of a search is displayed.
C28_Witness ==
    /\ lastEvent.op = "addIngredient"
    /\ lastEvent.repeat
    /\ selectedIngredients # <<>>
    /\ view = "grid"
    /\ error = Null
    /\ ~isLoading

\* C30: no search succeeds when the reply for one of its ingredients has no
\* meals field, although its status is OK: fetchRecipesByIngredient fails on
\* such a reply as it does on a transport failure and on a non-OK status,
\* and only a meals field that is null or an empty list counts as no result.
C30_MissingFieldFails ==
    /\ lastEvent.op = "searchSucceeded" =>
          \A k \in 1..Len(lastSuccess) : catalog[lastSuccess[k]].kind # "missing"
    /\ lastEvent.op \in {"searchSucceeded", "fetchSettled"} =>
          lastEvent.reply = "ok"

\* ------------------------------------------------------------ timer claims

\* C4: after any sequence of timer operations and ticks at most one interval
\* registered by setInterval is still active.
C4_AtMostOneTickSource == Cardinality(activeIntervals) <= 1

\* C8: startTimer on the idle timer followed by 300 ticks has expired: the
\* timer is not running, its interval is cleared, remaining is 0 and exactly
\* one 'finished' toast was shown; never more than one.
C8_DefaultRunExpiresAtTick300 ==
    timerRun.kind = "default" =>
        /\ finishedCount <= 1
        /\ timerState.timeRemaining >= 0
        /\ timerRun.ticks = DefaultDuration =>
              /\ ~timerState.isRunning
              /\ timerState.interval = NullHandle
              /\ activeIntervals = {}
              /\ timerState.timeRemaining = 0
              /\ finishedCount = 1

\* C9: after setTimer(d) and startTimer the timer expires at tick d: before
\* tick d it is running with no toast, from tick d on it is stopped with
\* remaining 0 and one toast; remaining is never negative.
C9_ExpiresAtTickD ==
    timerRun.kind = "set" =>
        /\ timerState.timeRemaining >= 0
        /\ timerRun.ticks < timerRun.initial =>
              timerState.isRunning /\ finishedCount = 0
        /\ timerRun.ticks >= timerRun.initial =>
              /\ ~timerState.isRunning
              /\ timerState.timeRemaining = 0
              /\ finishedCount = 1

\* C10: startTimer after pauseTimer of a Running timer leaves timeRemaining
\* at the value it had when the timer was paused.
C10_ResumeKeepsRemaining ==
    lastTimerOp = "startTimer" =>
        \A paused \in pausedAt : timerState.timeRemaining = paused

\* C19: resetTimer leaves the timer idle with nothing remaining, and from
\* then until the next startTimer no tick changes timeRemaining or shows the
\* 'finished' toast.
C19_ResetCancelsTicks ==
    [][/\ lastTimerOp' = "resetTimer" =>
             (timerState'.timeRemaining = 0 /\ ~timerState'.isRunning)
       /\ (lastTimerOp' = "tick" /\ halted = "reset") =>
             /\ timerState'.timeRemaining = timerState.timeRemaining
             /\ finishedCount' = finishedCount]_vars

\* C20: from pauseTimer until the next startTimer, setTimer or resetTimer no
\* tick changes timeRemaining or shows the 'finished' toast.
C20_PauseCancelsTicks ==
    [][(lastTimerOp' = "tick" /\ halted = "paused") =>
          /\ timerState'.timeRemaining = timerState.timeRemaining
          /\ finishedCount' = finishedCount]_vars

\* C21: in every state timerState.timeRemaining is a non-negative integer,
\* ticks of leaked intervals included.
C21_RemainingNeverNegative == timerState.timeRemaining \in Nat

\* A tick found nothing remaining and showed the toast while an interval
\* leaked by an earlier startTimer is still registered.
C21_Witness ==
    /\ lastTimerOp = "tick"
    /\ finishedCount >= 1
    /\ activeIntervals # {}
    /\ timerState.timeRemaining = 0

\* C25: pauseTimer on a timer that is not running leaves timeRemaining,
\* isRunning, the interval handle, the registered intervals and the display
\* as they were and shows no toast.
C25_PauseWhenNotRunning ==
    [][(lastTimerOp' = "pauseTimer" /\ ~timerState.isRunning) =>
          /\ timerState' = timerState
          /\ UNCHANGED <<activeIntervals, timerDisplay, finishedCount>>]_vars

\* pauseTimer ran on a timer that was set to a duration and not started.
C25_Witness ==
    /\ lastTimerOp = "pauseTimer"
    /\ pausedAt = {}
    /\ ~timerState.isRunning
    /\ timerState.timeRemaining > 0

\* C26: setTimer stores a positive duration in timeRemaining, displays it,
\* and leaves isRunning, the interval handle and the registered intervals as
\* they were.
C26_SetTimerOnlySetsRemaining ==
    [][lastTimerOp' = "setTimer" =>
          /\ \E seconds \in Durations :
                timerState' = [timerState EXCEPT !.timeRemaining = seconds]
          /\ timerDisplay' = TimerText(timerState'.timeRemaining)
          /\ UNCHANGED <<activeIntervals, nextHandle, finishedCount>>]_vars

\* setTimer(90) ran on a running timer, which is still running.
C26_Witness ==
    /\ lastTimerOp = "setTimer"
    /\ timerState.isRunning
    /\ timerState.interval \in activeIntervals
    /\ timerState.timeRemaining = 90

\* ----------------------------------------------------------- filter claims

NoFilter == [time |-> "", category |-> <<>>, area |-> <<>>]

\* The handlers that end in applyFilters().
AppliedFilters == lastEvent.op \in {"handleFilterChange", "searchSucceeded"}

\* C11: when applyFilters has run with the time, category and area criteria
\* all empty, state.filteredRecipes is state.allRecipes: the same recipes in
\* the same order.
C11_NoCriteriaKeepsAll ==
    (AppliedFilters /\ currentFilter = NoFilter) => filteredRecipes = allRecipes

\* The last criterion was set back to "all" over two stored recipes.
C11_Witness ==
    /\ lastEvent.op = "handleFilterChange"
    /\ ~lastEvent.repeat
    /\ currentFilter = NoFilter
    /\ Len(allRecipes) >= 2
    /\ filteredRecipes = allRecipes

\* C12: with the time criterion empty, a filter change that leaves the
\* category and area criteria as they were stores the filteredRecipes that
\* were stored before: applying the same criteria again changes nothing.
C12_SameCriteriaSameResult ==
    [][(lastEvent'.op = "handleFilterChange" /\ currentFilter' = currentFilter
        /\ currentFilter.time = "")
       => filteredRecipes' = filteredRecipes]_vars

\* The same category was selected again and it keeps some of the stored
\* recipes, not all of them.
C12_Witness ==
    /\ lastEvent.op = "handleFilterChange"
    /\ lastEvent.repeat
    /\ currentFilter.time = ""
    /\ currentFilter.category # <<>>
    /\ filteredRecipes # <<>>
    /\ Len(filteredRecipes) < Len(allRecipes)

EqualIgnoringCase(a, b) ==
    /\ Len(a) = Len(b)
    /\ \A i \in 1..Len(a) : LowerChar(a[i]) = LowerChar(b[i])

\* A recipe satisfies the category and the area criterion of `filter`.
Passes(recipe, filter) ==
    /\ filter.category # <<>> =>
          /\ recipe.strCategory # NoTag
          /\ EqualIgnoringCase(recipe.strCategory, filter.category)
    /\ filter.area # <<>> =>
          /\ recipe.strArea # NoTag
          /\ EqualIgnoringCase(recipe.strArea, filter.area)

\* C22: when applyFilters has run with the time criterion empty,
\* state.filteredRecipes holds, in their order, exactly the recipes of
\* state.allRecipes that carry the category tag and the area tag asked for,
\* compared ignoring case; a recipe without the tag fails a criterion that is
\* set and a criterion that is not set excludes nothing.
C22_TagPredicates ==
    (AppliedFilters /\ currentFilter.time = "") =>
        LET kept == {k \in 1..Len(allRecipes) :
                        Passes(allRecipes[k], currentFilter)}
        IN /\ Len(filteredRecipes) = Cardinality(kept)
           /\ \A j \in 1..Len(filteredRecipes) :
                 filteredRecipes[j] = allRecipes[Nth(kept, j)]

\* Category "Vegan" and area "Thai" keep A, tagged "vegan" and "Thai", and
\* drop B, which has no category.
C22_Witness ==
    /\ lastEvent.op = "handleFilterChange"
    /\ currentFilter = [time |-> "", category |-> <<"V","e","g","a","n">>,
                        area |-> <<"T","h","a","i">>]
    /\ Ids(allRecipes) = <<"A", "B">>
    /\ Ids(filteredRecipes) = <<"A">>

\* The place a recipe has in a list that holds it.
Position(recipe, recipes) == CHOOSE k \in 1..Len(recipes) : recipes[k] = recipe

\* C23: under every combination of criteria, a time criterion included,
\* every recipe of state.filteredRecipes is a recipe of state.allRecipes and
\* the recipes of filteredRecipes are in the order they have in allRecipes.
C23_FilteredIsSubsequence ==
    /\ \A j \in 1..Len(filteredRecipes) : InSeq(filteredRecipes[j], allRecipes)
    /\ \A i, j \in 1..Len(filteredRecipes) :
          i < j => Position(filteredRecipes[i], allRecipes)
                   < Position(filteredRecipes[j], allRecipes)

\* The time filter was applied to two recipes and its draws kept both.
C23_Witness ==
    /\ AppliedFilters
    /\ currentFilter.time # ""
    /\ Len(allRecipes) = 2
    /\ filteredRecipes = allRecipes

\* C24: a filter change leaves state.allRecipes, the ingredient set, the
\* favorites, the modal and the timer as they were and starts no request; of
\* the search state it changes at most one criterion, state.filteredRecipes
\* and the displayed view.
C24_FilterChangeFrame ==
    [][lastEvent'.op = "handleFilterChange" =>
          /\ UNCHANGED <<allRecipes, selectedIngredients, isLoading, error,
                         searches, lookups>>
          /\ UNCHANGED <<favorites, currentRecipe, modalOpen>>
          /\ UNCHANGED <<timerState, activeIntervals, timerDisplay>>
          /\ Cardinality({filterType \in DOMAIN currentFilter :
                 currentFilter'[filterType] # currentFilter[filterType]}) <= 1
      ]_vars

\* A filter change dropped one of two stored recipes while an ingredient is
\* selected, a recipe is a favorite and the timer is set.
C24_Witness ==
    /\ lastEvent.op = "handleFilterChange"
    /\ selectedIngredients # <<>>
    /\ Len(allRecipes) = 2
    /\ Len(filteredRecipes) = 1
    /\ favorites # {}
    /\ timerState.timeRemaining > 0

\* ------------------------------------------------------ recipe modal claims

LookupFailures == {"network-error", "http-error", "empty"}

\* C16: when a lookup.php request ends with a transport error, a non-OK
\* status or no recipe, the step shows the failure toast and leaves
\* state.allRecipes, state.filteredRecipes, state.error, state.isLoading,
\* currentRecipe, the displayed view and the modal as they were.
C16_FailedLookupOnlyNotifies ==
    [][(lastEvent'.op \in {"detailsShown", "detailsRenderFailed", "detailsFailed"}
        /\ lastEvent'.reply \in LookupFailures)
       => /\ toast' = DetailsFailedMessage
          /\ UNCHANGED <<allRecipes, filteredRecipes, error, isLoading,
                         currentRecipe, view, modalOpen>>]_vars

\* The lookup of a recipe of the displayed grid failed: the grid is still
\* displayed, no modal is open and the toast is shown.
C16_Witness ==
    /\ lastEvent.op = "detailsFailed"
    /\ lastEvent.reply \in LookupFailures
    /\ view = "grid"
    /\ Len(filteredRecipes) = 2
    /\ ~modalOpen
    /\ currentRecipe = Null
    /\ toast = DetailsFailedMessage

\* C17: the step in which a random.php request fails leaves state.allRecipes,
\* state.filteredRecipes, state.error and the displayed view as they were,
\* and the step in which a search fails leaves currentRecipe and
\* state.favorites as they were.
C17_FailuresDoNotCross ==
    [][/\ lastEvent'.op = "randomFailed" =>
             UNCHANGED <<allRecipes, filteredRecipes, error, view>>
       /\ lastEvent'.op = "searchFailed" =>
             UNCHANGED <<currentRecipe, favorites>>]_vars

\* The identifiers that are in one of two sets only.
Changed(before, after) == (before \ after) \cup (after \ before)

\* C29: state.favorites changes only in toggleFavorite with a current recipe;
\* toggleFavorite with a current recipe adds or removes exactly that recipe's
\* identifier, so that a second toggle on the same recipe restores the set,
\* and toggleFavorite without a current recipe changes nothing.
C29_FavoritesOnlyToggled ==
    [][/\ favorites' # favorites =>
             (lastEvent'.op = "toggleFavorite" /\ currentRecipe # Null)
       /\ lastEvent'.op = "toggleFavorite" =>
             Changed(favorites, favorites') =
                 IF currentRecipe = Null THEN {} ELSE {currentRecipe}]_vars

\* The current recipe was made a favorite and a second toggle removed it
\* again: the set is empty as before.
C29_Witness ==
    /\ lastEvent.op = "toggleFavorite"
    /\ currentRecipe # Null
    /\ toast = "Removed from favorites"
    /\ favorites = {}

\* ------------------------------------------------- state consistency claims

\* C31: in every state in which the time criterion is empty,
\* state.filteredRecipes is the recipes of state.allRecipes that pass the
\* category and area criteria of state.currentFilter, in their order.
C31_FilteredConsistent ==
    currentFilter.time = "" =>
        filteredRecipes =
            SelectSeq(allRecipes, LAMBDA recipe : Passes(recipe, currentFilter))

\* A search failed while a category criterion keeps one of the two recipes
\* of the search before it.
C31_Witness ==
    /\ lastEvent.op = "searchFailed"
    /\ currentFilter.time = ""
    /\ currentFilter.category # <<>>
    /\ Len(allRecipes) = 2
    /\ Len(filteredRecipes) = 1

\* C32: whenever state.error is not null the grid is not the displayed view.
C32_NoGridWhileError == error # Null => view # "grid"

\* The requests in flight that set state.isLoading when they were issued.
LoadingRuns ==
    Len(searches) + Cardinality({k \in 1..Len(lookups) : lookups[k].kind = "random"})

\* C33: state.isLoading is true exactly when a searchRecipes or
\* getRandomRecipe run is in flight.
C33_LoadingIffInFlight == isLoading <=> LoadingRuns > 0

\* C34: when every request ends, state.isLoading always becomes false again
\* and the loading view is always replaced by another view; and the loading
\* view is never displayed while no run is in flight.
C34_LoadingEnds ==
    /\ isLoading ~> ~isLoading
    /\ (view = "loading") ~> (view # "loading")
    /\ [](LoadingRuns = 0 => view # "loading")

\* The last of the runs in flight has failed: the error view replaced the
\* loading view and isLoading is false.
C34_Witness ==
    /\ lastEvent.op = "searchFailed"
    /\ searches = <<>>
    /\ selectedIngredients # <<>>
    /\ ~isLoading
    /\ view = "error"

\* C35: once no lookup.php request awaits its reply (and none has failed
\* since the last showRecipeModal call or closeModal), currentRecipe is the
\* recipe of the last showRecipeModal call, or null if closeModal was invoked
\* after that call.
C35_LatestRequestWins ==
    /\ \A k \in 1..Len(lookups) : lookups[k].kind # "details"
    /\ latestRequest # {}
    => currentRecipe \in latestRequest

\* C36: timerState.isRunning is true exactly when timerState.interval holds
\* a handle.
C36_RunningIffHandle ==
    timerState.isRunning <=> timerState.interval # NullHandle

\* The timer was paused while an interval leaked by an earlier startTimer is
\* still registered.
C36_Witness ==
    /\ lastTimerOp = "pauseTimer"
    /\ ~timerState.isRunning
    /\ timerState.interval = NullHandle
    /\ activeIntervals # {}

====
